---- MODULE Spec2Model ----
(***************************************************************************)
(* The evaluator-optimizer feedback loop of the Treatment Process          *)
(* Optimization system (src/unnamed/part_000).  A run threads one          *)
(* OptimizationState through evaluate_process, the conditional edge        *)
(* should_continue_optimization and optimize_process until the edge        *)
(* answers "Complete".                                                     *)
(*                                                                         *)
(* The module's last sections hold the repository's other workflows, each  *)
(* with variables and a specification of its own: the customer-service     *)
(* routing workflow, the water-quality analysis workflow with its quality  *)
(* gate, the monitoring agent's stored readings, and the arithmetic agent  *)
(* loop.                                                                   *)
(***************************************************************************)
EXTENDS Integers, Sequences, FiniteSets, TLC

\* ---------------------------------------------------------------- bounds
\* Largest max_iterations a run is started with.
MaxCap == 3

\* ProcessEvaluation.performance_score: Field(ge=1, le=10)
ScoreMin == 1
ScoreMax == 10

\* The runs of the model: run 1 alone in Spec, both in the two-run
\* specifications.
Runs == {1, 2}

Other(r) == IF r = 1 THEN 2 ELSE 1

\* ------------------------------------------------------------ data model
\* state.get('evaluation') before the first evaluation
None == [kind |-> "None"]

\* The baseline configurations a run may start from; a configuration is the
\* baseline plus the feedback each revision was written from.
InitialCandidates == {[base |-> "cfgA", revisions |-> <<>>],
                      [base |-> "cfgB", revisions |-> <<>>]}

\* Values of max_iterations a caller may pass (0 is the invalid one).
CapChoices == 0..MaxCap

\* What the evaluator LLM may answer to its j-th call of a run: a structured
\* output (scores around both ends of the schema's range, statuses inside and
\* outside the Literal), or no answer at all (timeout, upstream error).
RawScores == {ScoreMin - 1, ScoreMin, ScoreMax, ScoreMax + 1}

RawStatuses == {"optimized", "needs_improvement", "unknown"}

CollaboratorFailure == [kind |-> "failure"]

StructuredOutputs(j) ==
    { [kind |-> "output",
       performance_score |-> s,
       water_quality_assessment |-> <<"water_quality", j>>,
       efficiency_assessment |-> <<"efficiency", j>>,
       optimization_status |-> st,
       improvement_recommendations |-> <<"recommendations", j>>]
      : s \in RawScores, st \in RawStatuses }

EvaluatorResponses(j) == StructuredOutputs(j) \cup {CollaboratorFailure}

\* class ProcessEvaluation(BaseModel): the schema validation of a response
ProcessEvaluation(resp) ==
    /\ resp.kind = "output"
    /\ resp.performance_score >= ScoreMin
    /\ resp.performance_score <= ScoreMax
    /\ resp.optimization_status \in {"optimized", "needs_improvement"}

\* initialize(candidate, maxIterations): the state a run starts from
initialize(candidate, maxIterations) ==
    [process_configuration |-> candidate,
     iteration_count |-> 0,
     max_iterations |-> maxIterations,
     evaluation |-> None,
     optimization_history |-> <<>>]

\* The record a run holds before runOptimization has built its state.
Unstarted == initialize([base |-> "none", revisions |-> <<>>], 0)

\* state["initial_analysis"] before analyze_parameters has run
NoAnalysis == [words |-> {}, length |-> 0]

\* No get_current_readings call has returned yet.
NoObservation == [type |-> "none", keys |-> {}, timestamp |-> 0]

VARIABLES
    state,            \* run -> OptimizationState
    pc,               \* run -> INIT, EVALUATING, DECIDING, OPTIMIZING, DONE, FAILED
    error,            \* run -> the error surfaced to the caller, "" if none
    args,             \* run -> the inputs runOptimization was called with
    evaluator_calls,  \* run -> number of Evaluator invocations
    optimizer_calls,  \* run -> number of Optimizer invocations
    responses,        \* run -> the Evaluator's responses, in call order
    decisions,        \* run -> the continuation decisions, in order
    cs,               \* the customer-service routing workflow's state
    wq,               \* the water-quality analysis workflow's state
    historical_readings,  \* the monitoring agent's stored readings
    arrivals,         \* every timestamped reading observed, in arrival order
    observation,      \* what the latest get_current_readings call returned
    agent             \* the arithmetic agent's graph position and messages

\* The variables of the evaluator-optimizer loop, and those of the other
\* workflows of the repository, which the loop never touches.
loop_vars == <<state, pc, error, args, evaluator_calls, optimizer_calls,
               responses, decisions>>

monitor_vars == <<historical_readings, arrivals, observation>>

demo_vars == <<cs, wq, monitor_vars, agent>>

vars == <<state, pc, error, args, evaluator_calls, optimizer_calls,
          responses, decisions, cs, wq, historical_readings, arrivals,
          observation, agent>>

\* --------------------------------------------------------- evaluate_process
\* A history list that outlives its run: an empty history is taken from the
\* list the process's other run (prior) has been filling.
current_history_shared(s, prior) ==
    IF s.optimization_history = <<>>
    THEN prior.optimization_history
    ELSE s.optimization_history

\* current_history = state.get('optimization_history', []): the list of the
\* run's own state s; the state of the other run, prior, is never read
current_history(s, prior) == s.optimization_history

\* history_update without the "Don't add the initial state" test
history_update_initial_state(s, prior) ==
    Append(current_history(s, prior),
           [iteration |-> s.iteration_count,
            configuration |-> s.process_configuration,
            evaluation |-> s.evaluation])

\* history_update restarting the list at each snapshot
history_update_overwrite(s, prior) ==
    IF s.iteration_count > 0
    THEN <<[iteration |-> s.iteration_count,
            configuration |-> s.process_configuration,
            evaluation |-> s.evaluation]>>
    ELSE current_history(s, prior)

\* evaluate_process, "Update optimization history": the snapshot appended
\* before the evaluator is invoked
history_update(s, prior) ==
    IF s.iteration_count > 0
    THEN Append(current_history(s, prior),
                [iteration |-> s.iteration_count,
                 configuration |-> s.process_configuration,
                 evaluation |-> s.evaluation])
    ELSE current_history(s, prior)

\* recordEvaluation: the validated verdict replaces the latest evaluation
recordEvaluation(s, verdict) == [s EXCEPT !.evaluation = verdict]

\* An optimizer prompt that carries the recommendations alone.
optimizer_prompt_recommendations_only(s) ==
    [iteration |-> s.iteration_count,
     configuration |-> s.process_configuration,
     performance_score |-> 0,
     water_quality_assessment |-> <<>>,
     efficiency_assessment |-> <<>>,
     improvement_recommendations |-> s.evaluation.improvement_recommendations]

\* ------------------------------------------------------- optimize_process
\* What optimize_process interpolates into the optimizer's prompt.
optimizer_prompt(s) ==
    [iteration |-> s.iteration_count,
     configuration |-> s.process_configuration,
     performance_score |-> s.evaluation.performance_score,
     water_quality_assessment |-> s.evaluation.water_quality_assessment,
     efficiency_assessment |-> s.evaluation.efficiency_assessment,
     improvement_recommendations |-> s.evaluation.improvement_recommendations]

\* The Optimizer stub: the revised configuration is the current one plus the
\* feedback it was asked to address (the spec's candidate + "'").
Optimizer(prompt) ==
    [prompt.configuration EXCEPT
       !.revisions = Append(@, <<prompt.performance_score,
                                 prompt.water_quality_assessment,
                                 prompt.efficiency_assessment,
                                 prompt.improvement_recommendations>>)]

\* applyRevision: the new candidate replaces the old, one more revision
applyRevision(s, newCandidate) ==
    [s EXCEPT !.process_configuration = newCandidate,
              !.iteration_count = @ + 1]

\* ------------------------------------------- should_continue_optimization
\* Variants of the edge with one test changed.
should_continue_strict_cap(s) ==
    IF s.iteration_count > s.max_iterations
    THEN "Complete"
    ELSE IF s.evaluation.optimization_status = "optimized"
         THEN "Complete"
         ELSE "Continue"

should_continue_cap_from_one(s) ==
    IF s.iteration_count + 1 >= s.max_iterations
    THEN "Complete"
    ELSE IF s.evaluation.optimization_status = "optimized"
         THEN "Complete"
         ELSE "Continue"

should_continue_no_cap(s) ==
    IF s.evaluation.optimization_status = "optimized"
    THEN "Complete"
    ELSE "Continue"

should_continue_ignores_status(s) ==
    IF s.iteration_count >= s.max_iterations
    THEN "Complete"
    ELSE "Continue"

should_continue_score_gate(s) ==
    IF s.iteration_count >= s.max_iterations
    THEN "Complete"
    ELSE IF s.evaluation.optimization_status = "optimized"
            /\ s.evaluation.performance_score >= 8
         THEN "Complete"
         ELSE "Continue"

should_continue_by_score(s) ==
    IF s.iteration_count >= s.max_iterations
    THEN "Complete"
    ELSE IF s.evaluation.optimization_status = "optimized"
            \/ s.evaluation.performance_score >= ScoreMax
         THEN "Complete"
         ELSE "Continue"

should_continue_optimization(s) ==
    IF s.iteration_count >= s.max_iterations
    THEN "Complete"
    ELSE IF s.evaluation.optimization_status = "optimized"
         THEN "Complete"
         ELSE "Continue"

\* ----------------------------------------------------------------- actions
Init ==
    /\ state = [r \in Runs |-> Unstarted]
    /\ pc = [r \in Runs |-> "INIT"]
    /\ error = [r \in Runs |-> ""]
    /\ args = [r \in Runs |-> <<>>]
    /\ evaluator_calls = [r \in Runs |-> 0]
    /\ optimizer_calls = [r \in Runs |-> 0]
    /\ responses = [r \in Runs |-> <<>>]
    /\ decisions = [r \in Runs |-> <<>>]
    /\ cs = [pc |-> "START", inquiry |-> "", category |-> "",
             priority |-> "", route |-> ""]
    /\ wq = [pc |-> "START", initial_analysis |-> NoAnalysis, gate |-> "",
             treatment_recommendations |-> "", compliance_evaluation |-> "",
             final_report |-> ""]
    /\ historical_readings = <<>>
    /\ arrivals = <<>>
    /\ observation = NoObservation
    /\ agent = [pc |-> "START", messages |-> <<>>, llm_calls |-> 0]

\* Start without the validation of maxIterations
Start_unvalidated(r, candidate, maxIterations) ==
    /\ pc[r] = "INIT"
    /\ args' = [args EXCEPT ![r] = <<candidate, maxIterations>>]
    /\ pc' = [pc EXCEPT ![r] = "EVALUATING"]
    /\ state' = [state EXCEPT ![r] = initialize(candidate, maxIterations)]
    /\ UNCHANGED <<error, evaluator_calls, optimizer_calls, responses, decisions>>
    /\ UNCHANGED demo_vars

\* runOptimization(initialCandidate, goals, maxIterations): INIT
Start(r, candidate, maxIterations) ==
    /\ pc[r] = "INIT"
    /\ args' = [args EXCEPT ![r] = <<candidate, maxIterations>>]
    /\ IF maxIterations < 1
       THEN /\ pc' = [pc EXCEPT ![r] = "FAILED"]
            /\ error' = [error EXCEPT ![r] = "ConfigError"]
            /\ UNCHANGED state
       ELSE /\ pc' = [pc EXCEPT ![r] = "EVALUATING"]
            /\ state' = [state EXCEPT ![r] = initialize(candidate, maxIterations)]
            /\ UNCHANGED error
    /\ UNCHANGED <<evaluator_calls, optimizer_calls, responses, decisions>>
    /\ UNCHANGED demo_vars

\* The evaluate node taking its snapshot after the new evaluation is stored.
evaluate_process_snapshot_last(r, resp) ==
    /\ pc[r] = "EVALUATING"
    /\ evaluator_calls[r] <= MaxCap + 1
    /\ evaluator_calls' = [evaluator_calls EXCEPT ![r] = @ + 1]
    /\ responses' = [responses EXCEPT ![r] = Append(@, resp)]
    /\ IF ProcessEvaluation(resp)
       THEN /\ LET stored == recordEvaluation(state[r], resp)
               IN state' = [state EXCEPT ![r] =
                      [stored EXCEPT !.optimization_history =
                          history_update(stored, state[Other(r)])]]
            /\ pc' = [pc EXCEPT ![r] = "DECIDING"]
            /\ UNCHANGED error
       ELSE /\ pc' = [pc EXCEPT ![r] = "FAILED"]
            /\ error' = [error EXCEPT ![r] =
                           IF resp.kind = "output" THEN "SchemaViolation"
                                                   ELSE "CollaboratorError"]
            /\ UNCHANGED state
    /\ UNCHANGED <<args, optimizer_calls, decisions>>
    /\ UNCHANGED demo_vars

\* The evaluate node entered again from a finished run.
evaluate_process_after_done(r, resp) ==
    /\ pc[r] \in {"EVALUATING", "DONE"}
    /\ evaluator_calls[r] <= MaxCap + 1
    /\ evaluator_calls' = [evaluator_calls EXCEPT ![r] = @ + 1]
    /\ responses' = [responses EXCEPT ![r] = Append(@, resp)]
    /\ LET logged == [state[r] EXCEPT !.optimization_history =
                         history_update(state[r], state[Other(r)])]
       IN IF ProcessEvaluation(resp)
          THEN /\ state' = [state EXCEPT ![r] = recordEvaluation(logged, resp)]
               /\ pc' = [pc EXCEPT ![r] = "DECIDING"]
               /\ UNCHANGED error
          ELSE /\ state' = [state EXCEPT ![r] = logged]
               /\ pc' = [pc EXCEPT ![r] = "FAILED"]
               /\ error' = [error EXCEPT ![r] =
                              IF resp.kind = "output" THEN "SchemaViolation"
                                                      ELSE "CollaboratorError"]
    /\ UNCHANGED <<args, optimizer_calls, decisions>>
    /\ UNCHANGED demo_vars

\* The evaluate node: the history update, then the evaluator's answer resp,
\* validated against ProcessEvaluation and stored.  The history list is
\* appended to in place before the evaluator is invoked, so the snapshot is
\* there also when the call fails.  The guard on evaluator_calls (and the one
\* on optimizer_calls below) only keeps the counters finite: a run of the
\* loop never comes near it.
evaluate_process(r, resp) ==
    /\ pc[r] = "EVALUATING"
    /\ evaluator_calls[r] <= MaxCap + 1
    /\ evaluator_calls' = [evaluator_calls EXCEPT ![r] = @ + 1]
    /\ responses' = [responses EXCEPT ![r] = Append(@, resp)]
    /\ LET logged == [state[r] EXCEPT !.optimization_history =
                         history_update(state[r], state[Other(r)])]
       IN IF ProcessEvaluation(resp)
          THEN /\ state' = [state EXCEPT ![r] = recordEvaluation(logged, resp)]
               /\ pc' = [pc EXCEPT ![r] = "DECIDING"]
               /\ UNCHANGED error
          ELSE /\ state' = [state EXCEPT ![r] = logged]
               /\ pc' = [pc EXCEPT ![r] = "FAILED"]
               /\ error' = [error EXCEPT ![r] =
                              IF resp.kind = "output" THEN "SchemaViolation"
                                                      ELSE "CollaboratorError"]
    /\ UNCHANGED <<args, optimizer_calls, decisions>>
    /\ UNCHANGED demo_vars

\* The edge counting an iteration each time it is consulted.
Decide_counting(r) ==
    /\ pc[r] = "DECIDING"
    /\ LET d == should_continue_optimization(state[r])
       IN /\ decisions' = [decisions EXCEPT ![r] = Append(@, d)]
          /\ pc' = [pc EXCEPT ![r] = IF d = "Continue" THEN "OPTIMIZING" ELSE "DONE"]
    /\ state' = [state EXCEPT ![r].iteration_count = @ + 1]
    /\ UNCHANGED <<error, args, evaluator_calls, optimizer_calls, responses>>
    /\ UNCHANGED demo_vars

\* The edge sending a "Continue" back to the evaluate node.
Decide_reevaluates(r) ==
    /\ pc[r] = "DECIDING"
    /\ LET d == should_continue_optimization(state[r])
       IN /\ decisions' = [decisions EXCEPT ![r] = Append(@, d)]
          /\ pc' = [pc EXCEPT ![r] = IF d = "Continue" THEN "EVALUATING" ELSE "DONE"]
    /\ UNCHANGED <<state, error, args, evaluator_calls, optimizer_calls, responses>>
    /\ UNCHANGED demo_vars

\* The conditional edge after the evaluate node.
Decide(r) ==
    /\ pc[r] = "DECIDING"
    /\ LET d == should_continue_optimization(state[r])
       IN /\ decisions' = [decisions EXCEPT ![r] = Append(@, d)]
          /\ pc' = [pc EXCEPT ![r] = IF d = "Continue" THEN "OPTIMIZING" ELSE "DONE"]
    /\ UNCHANGED <<state, error, args, evaluator_calls, optimizer_calls, responses>>
    /\ UNCHANGED demo_vars

\* The optimize node whose call was started before a cancellation and whose
\* result is applied after it.
optimize_process_in_flight(r, ok) ==
    /\ pc[r] \in {"OPTIMIZING", "CANCELLED"}
    /\ state[r].evaluation # None
    /\ optimizer_calls[r] <= MaxCap
    /\ optimizer_calls' = [optimizer_calls EXCEPT ![r] = @ + 1]
    /\ IF ok
       THEN /\ state' = [state EXCEPT ![r] =
                           applyRevision(@, Optimizer(optimizer_prompt(@)))]
            /\ pc' = [pc EXCEPT ![r] = "EVALUATING"]
            /\ UNCHANGED error
       ELSE /\ pc' = [pc EXCEPT ![r] = "FAILED"]
            /\ error' = [error EXCEPT ![r] = "CollaboratorError"]
            /\ UNCHANGED state
    /\ UNCHANGED <<args, evaluator_calls, responses, decisions>>
    /\ UNCHANGED demo_vars

\* The optimize node: the optimizer is prompted with the current evaluation;
\* its revision is applied, or its failure surfaced.
optimize_process(r, ok) ==
    /\ pc[r] = "OPTIMIZING"
    /\ optimizer_calls[r] <= MaxCap
    /\ optimizer_calls' = [optimizer_calls EXCEPT ![r] = @ + 1]
    /\ IF ok
       THEN /\ state' = [state EXCEPT ![r] =
                           applyRevision(@, Optimizer(optimizer_prompt(@)))]
            /\ pc' = [pc EXCEPT ![r] = "EVALUATING"]
            /\ UNCHANGED error
       ELSE /\ pc' = [pc EXCEPT ![r] = "FAILED"]
            /\ error' = [error EXCEPT ![r] = "CollaboratorError"]
            /\ UNCHANGED state
    /\ UNCHANGED <<args, evaluator_calls, responses, decisions>>
    /\ UNCHANGED demo_vars

\* One run of the loop with a free evaluator and optimizer.
Next ==
    \/ \E c \in InitialCandidates, n \in CapChoices : Start(1, c, n)
    \/ \E resp \in EvaluatorResponses(evaluator_calls[1] + 1) : evaluate_process(1, resp)
    \/ Decide(1)
    \/ \E ok \in BOOLEAN : optimize_process(1, ok)

Spec == Init /\ [][Next]_vars

\* The loop is sequential code: a step that can be taken is taken, and every
\* collaborator call returns or fails.
FairSpec == Spec /\ WF_vars(Next)

\* Two runs of the same caller: the second is started with the inputs of the
\* first.
SameInputs(r) ==
    IF pc[Other(r)] # "INIT"
    THEN {args[Other(r)]}
    ELSE InitialCandidates \X CapChoices

\* A deterministic Evaluator stub shared by both runs: its j-th answer is the
\* same in each run.
SameEvaluator(r) ==
    LET j == evaluator_calls[r] + 1
    IN IF Len(responses[Other(r)]) >= j
       THEN {responses[Other(r)][j]}
       ELSE EvaluatorResponses(j)

\* Two runs, interleaved in any order (one after the other included), with
\* the same inputs and the same deterministic Evaluator and Optimizer.
RestartNext ==
    \E r \in Runs :
        \/ \E a \in SameInputs(r) : Start(r, a[1], a[2])
        \/ \E resp \in SameEvaluator(r) : evaluate_process(r, resp)
        \/ Decide(r)
        \/ optimize_process(r, TRUE)

RestartSpec == Init /\ [][RestartNext]_vars

\* Two Evaluators that return valid verdicts with the same status on each
\* call and scores of their own.
SameStatusEvaluator(r) ==
    LET j == evaluator_calls[r] + 1
    IN { v \in StructuredOutputs(j) :
           /\ ProcessEvaluation(v)
           /\ Len(responses[Other(r)]) >= j =>
                  v.optimization_status = responses[Other(r)][j].optimization_status }

ScoreNext ==
    \E r \in Runs :
        \/ \E a \in SameInputs(r) : Start(r, a[1], a[2])
        \/ \E resp \in SameStatusEvaluator(r) : evaluate_process(r, resp)
        \/ Decide(r)
        \/ optimize_process(r, TRUE)

ScoreSpec == Init /\ [][ScoreNext]_vars

\* Cancellation between steps: the Controller stops where it is and returns
\* the OptimizationState as it stands.
Cancel(r) ==
    /\ pc[r] \in {"EVALUATING", "DECIDING", "OPTIMIZING"}
    /\ pc' = [pc EXCEPT ![r] = "CANCELLED"]
    /\ UNCHANGED <<state, error, args, evaluator_calls, optimizer_calls,
                   responses, decisions>>
    /\ UNCHANGED demo_vars

\* Two runs with the same inputs and Evaluator, either of which may be
\* cancelled between any two of its steps while the other goes on.
CancelNext ==
    \E r \in Runs :
        \/ \E a \in SameInputs(r) : Start(r, a[1], a[2])
        \/ \E resp \in SameEvaluator(r) : evaluate_process(r, resp)
        \/ Decide(r)
        \/ optimize_process(r, TRUE)
        \/ Cancel(r)

CancelSpec == Init /\ [][CancelNext]_vars

\* Each run has an Evaluator of its own: valid verdicts of either status,
\* scored at the low end for run 1 and at the high end for run 2.
OwnEvaluator(r) ==
    LET j == evaluator_calls[r] + 1
    IN { v \in StructuredOutputs(j) :
           /\ ProcessEvaluation(v)
           /\ v.performance_score = (IF r = 1 THEN ScoreMin ELSE ScoreMax) }

\* Two runs with inputs and Evaluators of their own, their steps interleaved
\* in any order.
IsolationNext ==
    \E r \in Runs :
        \/ \E c \in InitialCandidates, n \in CapChoices : Start(r, c, n)
        \/ \E resp \in OwnEvaluator(r) : evaluate_process(r, resp)
        \/ Decide(r)
        \/ optimize_process(r, TRUE)

IsolationSpec == Init /\ [][IsolationNext]_vars

\* ------------------------------------------------------- claim vocabulary
\* The run has been started with a valid cap.
Started(r) == pc[r] # "INIT" /\ args[r][2] >= 1

\* maxIterations as passed by the caller.
Cap(r) == args[r][2]

\* The j-th Evaluator response of run r is a valid verdict with status st.
Verdict(r, j, st) ==
    /\ j <= Len(responses[r])
    /\ ProcessEvaluation(responses[r][j])
    /\ responses[r][j].optimization_status = st

\* The Optimizer applied k times from candidate c, fed the Evaluator's
\* responses 1..k in turn.
RECURSIVE Revised(_, _, _)
Revised(c, resps, k) ==
    IF k = 0
    THEN c
    ELSE Optimizer([iteration |-> k - 1,
                    configuration |-> Revised(c, resps, k - 1),
                    performance_score |-> resps[k].performance_score,
                    water_quality_assessment |-> resps[k].water_quality_assessment,
                    efficiency_assessment |-> resps[k].efficiency_assessment,
                    improvement_recommendations |-> resps[k].improvement_recommendations])

\* ------------------------------------------------------------------ claims
\* C1: a run started with maxIterations = N >= 1 makes at most N Optimizer
\* invocations and at most N+1 Evaluator invocations, whatever the verdicts.
C1_TerminationBound ==
    \A r \in Runs :
        Started(r) => /\ optimizer_calls[r] <= Cap(r)
                      /\ evaluator_calls[r] <= Cap(r) + 1

C1_Witness ==
    /\ pc[1] = "DONE"
    /\ Cap(1) >= 2
    /\ optimizer_calls[1] = Cap(1)
    /\ evaluator_calls[1] = Cap(1) + 1

\* C2: in DONE after k Optimizer invocations the history holds exactly k
\* entries; a run that ends after its first evaluation has an empty history.
C2_HistoryLength ==
    \A r \in Runs :
        pc[r] = "DONE" =>
            Len(state[r].optimization_history) = optimizer_calls[r]

C2_Witness ==
    /\ pc[1] = "DONE"
    /\ optimizer_calls[1] = 2
    /\ Len(state[1].optimization_history) = 2

\* C3: once an evaluation with status "optimized" is recorded while
\* iteration_count < max_iterations, the decision is DONE and the Optimizer
\* is not invoked again, whatever the score.
OptimizedBeforeCap(r) ==
    /\ pc[r] \in {"DECIDING", "DONE"}
    /\ state[r].evaluation.optimization_status = "optimized"
    /\ state[r].iteration_count < state[r].max_iterations

C3_StatusPrecedence ==
    [][\A r \in Runs :
          OptimizedBeforeCap(r) =>
              /\ pc'[r] \in {"DECIDING", "DONE"}
              /\ decisions'[r] # decisions[r] => pc'[r] = "DONE"
              /\ optimizer_calls'[r] = optimizer_calls[r]
              /\ evaluator_calls'[r] = evaluator_calls[r]
              /\ state'[r] = state[r]]_vars

C3_Witness ==
    /\ pc[1] = "DONE"
    /\ state[1].evaluation.optimization_status = "optimized"
    /\ state[1].evaluation.performance_score = ScoreMin
    /\ state[1].iteration_count >= 1
    /\ state[1].iteration_count < state[1].max_iterations

\* C4: when the decision is taken with iteration_count = max_iterations the
\* loop goes to DONE although the status is "needs_improvement", and no
\* Optimizer call follows.
CapReached(r) ==
    /\ pc[r] \in {"DECIDING", "DONE"}
    /\ state[r].evaluation.optimization_status = "needs_improvement"
    /\ state[r].iteration_count = state[r].max_iterations

C4_CapPrecedence ==
    [][\A r \in Runs :
          CapReached(r) =>
              /\ pc'[r] \in {"DECIDING", "DONE"}
              /\ decisions'[r] # decisions[r] => pc'[r] = "DONE"
              /\ optimizer_calls'[r] = optimizer_calls[r]
              /\ state'[r] = state[r]]_vars

C4_Witness ==
    /\ pc[1] = "DONE"
    /\ state[1].evaluation.optimization_status = "needs_improvement"
    /\ state[1].evaluation.performance_score = ScoreMax
    /\ state[1].iteration_count = state[1].max_iterations

\* C5: if every Evaluator call answered "needs_improvement", the run is in
\* DONE only with exactly N Optimizer calls, N+1 Evaluator calls and
\* iteration_count = N (N = 1: 2 Evaluator calls, 1 Optimizer call).
AllNeedImprovement(r) ==
    \A j \in 1..Len(responses[r]) : Verdict(r, j, "needs_improvement")

C5_RunToCap ==
    \A r \in Runs :
        (Started(r) /\ AllNeedImprovement(r)) =>
            (pc[r] = "DONE" =>
                 /\ optimizer_calls[r] = Cap(r)
                 /\ evaluator_calls[r] = Cap(r) + 1
                 /\ state[r].iteration_count = Cap(r))

C5_Witness ==
    /\ pc[1] = "DONE"
    /\ AllNeedImprovement(1)
    /\ Cap(1) = 1
    /\ evaluator_calls[1] = 2
    /\ optimizer_calls[1] = 1
    /\ state[1].iteration_count = 1

\* C6: needs_improvement on calls 1..j-1 and optimized on call j <= N ends
\* the run in DONE with j Evaluator calls, j-1 Optimizer calls,
\* iteration_count j-1, j-1 history entries and the candidate revised j-1
\* times from the initial one.
OptimizedAt(r, j) ==
    /\ \A i \in 1..(j - 1) : Verdict(r, i, "needs_improvement")
    /\ Verdict(r, j, "optimized")

C6_OptimizedAtCallJ ==
    \A r \in Runs :
        Started(r) =>
            \A j \in 1..Cap(r) :
                OptimizedAt(r, j) =>
                    /\ pc[r] \in {"DECIDING", "DONE"}
                    /\ evaluator_calls[r] = j
                    /\ optimizer_calls[r] = j - 1
                    /\ state[r].iteration_count = j - 1
                    /\ pc[r] = "DONE" =>
                           /\ Len(state[r].optimization_history) = j - 1
                           /\ state[r].process_configuration =
                                  Revised(args[r][1], responses[r], j - 1)

C6_Witness ==
    /\ pc[1] = "DONE"
    /\ Cap(1) = 3
    /\ OptimizedAt(1, 3)
    /\ state[1].iteration_count = 2
    /\ Len(state[1].optimization_history) = 2
    /\ Len(state[1].process_configuration.revisions) = 2

\* C7 as stated: with maxIterations = 1 there is exactly one evaluation and
\* never an Optimizer invocation.
C7_NoOptimizationAtCapOne ==
    \A r \in Runs :
        (Started(r) /\ Cap(r) = 1) =>
            /\ optimizer_calls[r] = 0
            /\ evaluator_calls[r] <= 1

\* C7 amended: with maxIterations = 1 the run ends after its first
\* evaluation only when that verdict is "optimized"; after a first
\* "needs_improvement" exactly one Optimizer invocation and one
\* re-evaluation follow, and the run then ends whatever the second status.
C7_OneRevisionAtCapOne ==
    \A r \in Runs :
        (Started(r) /\ Cap(r) = 1) =>
            /\ optimizer_calls[r] <= 1
            /\ evaluator_calls[r] <= 2
            /\ optimizer_calls[r] = 1 => Verdict(r, 1, "needs_improvement")
            /\ pc[r] = "DONE" =>
                   IF Verdict(r, 1, "optimized")
                   THEN evaluator_calls[r] = 1 /\ optimizer_calls[r] = 0
                   ELSE evaluator_calls[r] = 2 /\ optimizer_calls[r] = 1

C7_Witness ==
    /\ pc[1] = "DONE"
    /\ Cap(1) = 1
    /\ optimizer_calls[1] = 1
    /\ evaluator_calls[1] = 2
    /\ Verdict(1, 2, "needs_improvement")

\* C8: two runs from fresh states with the same inputs and the same
\* deterministic Evaluator and Optimizer end in the same state: identical
\* history, candidate, iteration_count and latest evaluation.
Terminal(r) == pc[r] \in {"DONE", "FAILED"}

C8_IdempotentRestart ==
    (Terminal(1) /\ Terminal(2)) =>
        /\ pc[1] = pc[2]
        /\ error[1] = error[2]
        /\ state[1].optimization_history = state[2].optimization_history
        /\ state[1].process_configuration = state[2].process_configuration
        /\ state[1].iteration_count = state[2].iteration_count
        /\ state[1].evaluation = state[2].evaluation

C8_Witness ==
    /\ pc[1] = "DONE"
    /\ pc[2] = "DONE"
    /\ Len(state[1].optimization_history) = 2
    /\ state[2].optimization_history = state[1].optimization_history
    /\ state[2].iteration_count = 2

\* C9: the score never influences control flow: two runs whose verdicts have
\* the same statuses and different scores take the same CONTINUE/DONE
\* decisions and make the same number of Evaluator and Optimizer calls.
Min(a, b) == IF a <= b THEN a ELSE b

C9_ScoreIsAdvisory ==
    /\ \A k \in 1..Min(Len(decisions[1]), Len(decisions[2])) :
           decisions[1][k] = decisions[2][k]
    /\ (pc[1] = "DONE" /\ pc[2] = "DONE") =>
           /\ decisions[1] = decisions[2]
           /\ evaluator_calls[1] = evaluator_calls[2]
           /\ optimizer_calls[1] = optimizer_calls[2]

C9_Witness ==
    /\ pc[1] = "DONE"
    /\ pc[2] = "DONE"
    /\ decisions[1] = <<"Continue", "Complete">>
    /\ decisions[2] = <<"Continue", "Complete">>
    /\ state[1].max_iterations = 3
    /\ responses[1][1].performance_score = ScoreMax
    /\ responses[2][1].performance_score = ScoreMin
    /\ responses[1][2].performance_score = ScoreMin
    /\ responses[2][2].performance_score = ScoreMax

\* C10: every run started with maxIterations >= 1 eventually reaches DONE or
\* fails as a whole, also when the Evaluator never answers "optimized".
C10_Terminates == Started(1) ~> Terminal(1)

C10_Witness ==
    /\ pc[1] = "DONE"
    /\ AllNeedImprovement(1)
    /\ Cap(1) >= 2
    /\ Len(decisions[1]) = Cap(1) + 1

\* C11: a run started with maxIterations < 1 fails with ConfigError at INIT:
\* no state is built and neither collaborator is invoked.
C11_ConfigError ==
    \A r \in Runs :
        (pc[r] # "INIT" /\ args[r][2] < 1) =>
            /\ pc[r] = "FAILED"
            /\ error[r] = "ConfigError"
            /\ evaluator_calls[r] = 0
            /\ optimizer_calls[r] = 0
            /\ state[r] = Unstarted

C11_Witness ==
    /\ pc[1] = "FAILED"
    /\ error[1] = "ConfigError"
    /\ args[1][2] = 0
    /\ evaluator_calls[1] = 0

\* C12: an Evaluator response that violates the schema aborts the run and
\* is not stored, no decision is taken on it, and history and the latest
\* evaluation are as they were before the failed evaluation.
SchemaViolationStep(r) ==
    /\ pc[r] = "EVALUATING"
    /\ pc'[r] = "FAILED"
    /\ error'[r] = "SchemaViolation"

C12_SchemaViolationAborts ==
    [][\A r \in Runs :
          SchemaViolationStep(r) =>
              /\ state'[r].evaluation = state[r].evaluation
              /\ decisions'[r] = decisions[r]
              /\ state'[r].optimization_history =
                     state[r].optimization_history]_vars

\* C13: a failed Evaluator or Optimizer call aborts the run and leaves
\* candidate, iteration_count and the history recorded so far unchanged.
CollaboratorErrorStep(r) ==
    /\ pc[r] \in {"EVALUATING", "OPTIMIZING"}
    /\ pc'[r] = "FAILED"
    /\ error'[r] = "CollaboratorError"

C13_CollaboratorErrorAborts ==
    [][\A r \in Runs :
          /\ CollaboratorErrorStep(r) =>
                 /\ state'[r].process_configuration =
                        state[r].process_configuration
                 /\ state'[r].iteration_count = state[r].iteration_count
                 /\ state'[r].optimization_history =
                        state[r].optimization_history
          /\ pc[r] = "FAILED" =>
                 /\ pc'[r] = "FAILED"
                 /\ evaluator_calls'[r] = evaluator_calls[r]
                 /\ optimizer_calls'[r] = optimizer_calls[r]
                 /\ state'[r] = state[r]]_vars

\* C14: the continuation decision is a function of iteration_count,
\* max_iterations and the latest status alone: Continue exactly when
\* iteration_count < max_iterations and the status is "needs_improvement",
\* Complete otherwise; taking it changes no field of the state.
DecisionOf(count, cap, status) ==
    IF count < cap /\ status = "needs_improvement"
    THEN "Continue"
    ELSE "Complete"

C14_DecisionIsPure ==
    [][\A r \in Runs :
          decisions'[r] # decisions[r] =>
              LET d == DecisionOf(state[r].iteration_count,
                                  state[r].max_iterations,
                                  state[r].evaluation.optimization_status)
              IN /\ decisions'[r] = Append(decisions[r], d)
                 /\ pc'[r] = IF d = "Continue" THEN "OPTIMIZING" ELSE "DONE"
                 /\ state'[r] = state[r]]_vars

C14_Witness ==
    /\ pc[1] = "OPTIMIZING"
    /\ decisions[1] = <<"Continue", "Continue">>
    /\ state[1].evaluation.performance_score = ScoreMax
    /\ state[1].iteration_count = 1

\* C15: iteration_count is the number of completed Optimizer invocations:
\* it starts at 0, grows by exactly 1 with each applied revision and stays
\* within 0..max_iterations.
OptimizerFailed(r) ==
    /\ pc[r] = "FAILED"
    /\ error[r] = "CollaboratorError"
    /\ optimizer_calls[r] = evaluator_calls[r]

CompletedRevisions(r) ==
    optimizer_calls[r] - (IF OptimizerFailed(r) THEN 1 ELSE 0)

C15_IterationCount ==
    /\ [](\A r \in Runs :
             /\ state[r].iteration_count >= 0
             /\ state[r].iteration_count <= state[r].max_iterations
             /\ state[r].iteration_count = CompletedRevisions(r)
             /\ state[r].iteration_count =
                    Len(state[r].process_configuration.revisions)
             /\ evaluator_calls[r] = 0 => state[r].iteration_count = 0)
    /\ [][\A r \in Runs :
             \/ state'[r].iteration_count = state[r].iteration_count
             \/ /\ state'[r].iteration_count = state[r].iteration_count + 1
                /\ pc[r] = "OPTIMIZING"
                /\ optimizer_calls'[r] = optimizer_calls[r] + 1
                /\ state'[r].process_configuration #
                       state[r].process_configuration]_vars

C15_Witness ==
    /\ OptimizerFailed(1)
    /\ optimizer_calls[1] = 2
    /\ state[1].iteration_count = 1
    /\ state[1].max_iterations = 3

C17_SnapshotContents ==
    /\ [][\A r \in Runs :
             state'[r].optimization_history # state[r].optimization_history =>
                 /\ pc[r] = "EVALUATING"
                 /\ state'[r].optimization_history =
                        Append(state[r].optimization_history,
                               [iteration |-> state[r].iteration_count,
                                configuration |-> state[r].process_configuration,
                                evaluation |-> state[r].evaluation])]_vars
    /\ [](\A r \in Runs :
             \A i \in 1..Len(state[r].optimization_history) :
                 LET e == state[r].optimization_history[i]
                 IN /\ e.iteration = i
                    /\ e.configuration = Revised(args[r][1], responses[r], i)
                    /\ e.evaluation = responses[r][i])

C17_Witness ==
    /\ pc[1] = "DONE"
    /\ Len(state[1].optimization_history) = 3
    /\ state[1].optimization_history[3].evaluation = responses[1][3]
    /\ state[1].evaluation = responses[1][4]

\* C18 as stated: each entry's evaluation is the verdict the Evaluator gave
\* on that entry's own candidate, and the first verdict is never in history.
C18_EntryPairsVerdictWithItsCandidate ==
    \A r \in Runs :
        pc[r] = "DONE" =>
            \A i \in 1..Len(state[r].optimization_history) :
                /\ state[r].optimization_history[i].evaluation =
                       responses[r][i + 1]
                /\ state[r].optimization_history[i].evaluation #
                       responses[r][1]

\* C18 amended: every verdict except the last one of the run is pushed onto
\* history, each with the candidate that was revised from it: the i-th
\* entry pairs the verdict of call i with the candidate the Optimizer made
\* of it, the first verdict is in the first entry and the latest verdict is
\* in no entry.
C18_EntryPairsVerdictWithItsRevision ==
    \A r \in Runs :
        pc[r] \in {"DECIDING", "OPTIMIZING", "DONE"} =>
            /\ Len(state[r].optimization_history) = Len(responses[r]) - 1
            /\ \A i \in 1..Len(state[r].optimization_history) :
                   LET e == state[r].optimization_history[i]
                   IN /\ e.evaluation = responses[r][i]
                      /\ Len(e.configuration.revisions) = i
                      /\ e.configuration.revisions[i][1] =
                             e.evaluation.performance_score
                      /\ e.configuration.revisions[i][4] =
                             e.evaluation.improvement_recommendations
                      /\ e.evaluation # state[r].evaluation

C18_Witness ==
    /\ pc[1] = "DONE"
    /\ Len(state[1].optimization_history) = 2
    /\ state[1].optimization_history[1].evaluation = responses[1][1]
    /\ state[1].optimization_history[2].evaluation = responses[1][2]
    /\ state[1].evaluation.optimization_status = "optimized"

\* C19: history is append-only: each step keeps the entries it finds, in
\* order, and the iteration fields of the entries strictly increase.
IsPrefix(s, t) ==
    /\ Len(s) <= Len(t)
    /\ \A i \in 1..Len(s) : s[i] = t[i]

C19_AppendOnly ==
    /\ [][\A r \in Runs :
             IsPrefix(state[r].optimization_history,
                      state'[r].optimization_history)]_vars
    /\ [](\A r \in Runs :
             \A i, j \in 1..Len(state[r].optimization_history) :
                 i < j => state[r].optimization_history[i].iteration <
                              state[r].optimization_history[j].iteration)

C19_Witness ==
    /\ pc[1] = "DECIDING"
    /\ Len(state[1].optimization_history) = 3
    /\ state[1].optimization_history[1].iteration = 1
    /\ state[1].optimization_history[3].iteration = 3

\* C20: the evaluation step and the decision leave candidate,
\* iteration_count and max_iterations as they are; the candidate changes only
\* when an Optimizer result is applied, and max_iterations never changes
\* during a run.
C20_Frame ==
    [][\A r \in Runs :
          /\ pc[r] \in {"EVALUATING", "DECIDING"} =>
                 /\ state'[r].process_configuration =
                        state[r].process_configuration
                 /\ state'[r].iteration_count = state[r].iteration_count
          /\ pc[r] # "INIT" =>
                 state'[r].max_iterations = state[r].max_iterations
          /\ (pc[r] # "INIT" /\ state'[r].process_configuration #
                                    state[r].process_configuration) =>
                 /\ pc[r] = "OPTIMIZING"
                 /\ pc'[r] = "EVALUATING"
                 /\ state'[r].process_configuration =
                        Optimizer(optimizer_prompt(state[r]))]_vars

C20_Witness ==
    /\ pc[1] = "DONE"
    /\ Len(decisions[1]) = 3
    /\ state[1].iteration_count = 2
    /\ state[1].max_iterations = 3
    /\ Len(state[1].process_configuration.revisions) = 2

\* C21: DONE is terminal: once a run is in DONE it stays there, no Evaluator
\* or Optimizer call is made for it and its candidate, iteration_count,
\* evaluation and history (the whole state), error and decisions never
\* change again, whatever steps are taken elsewhere.
C21_DoneIsTerminal ==
    [][\A r \in Runs :
          pc[r] = "DONE" =>
              /\ pc'[r] = "DONE"
              /\ evaluator_calls'[r] = evaluator_calls[r]
              /\ optimizer_calls'[r] = optimizer_calls[r]
              /\ responses'[r] = responses[r]
              /\ decisions'[r] = decisions[r]
              /\ error'[r] = error[r]
              /\ state'[r] = state[r]]_vars

C21_Witness ==
    /\ pc[1] = "DONE"
    /\ optimizer_calls[1] = 2
    /\ pc[2] = "DONE"
    /\ evaluator_calls[2] = 3

\* C22: every Optimizer invocation is immediately preceded by a decision
\* that answered "Continue": the Optimizer is invoked only from OPTIMIZING,
\* OPTIMIZING is entered only by a "Continue" decision that no Optimizer call
\* has consumed yet, and in OPTIMIZING iteration_count < max_iterations and
\* the evaluation exists with status "needs_improvement"; hence never before
\* the first evaluation.
C22_OptimizerOnlyAfterContinue ==
    /\ [](\A r \in Runs :
             pc[r] = "OPTIMIZING" =>
                 /\ Len(decisions[r]) = optimizer_calls[r] + 1
                 /\ decisions[r][Len(decisions[r])] = "Continue"
                 /\ state[r].iteration_count < state[r].max_iterations
                 /\ state[r].evaluation # None
                 /\ state[r].evaluation.optimization_status = "needs_improvement"
                 /\ evaluator_calls[r] >= 1)
    /\ [][\A r \in Runs :
             /\ optimizer_calls'[r] # optimizer_calls[r] => pc[r] = "OPTIMIZING"
             /\ (pc'[r] = "OPTIMIZING" /\ pc[r] # "OPTIMIZING") =>
                    /\ pc[r] = "DECIDING"
                    /\ decisions'[r] = Append(decisions[r], "Continue")]_vars

C22_Witness ==
    /\ pc[1] = "EVALUATING"
    /\ optimizer_calls[1] = 2
    /\ decisions[1] = <<"Continue", "Continue">>
    /\ state[1].max_iterations = 2

\* C23: Evaluator and Optimizer calls strictly alternate within a run and the
\* first call is an Evaluator call: an Evaluator call is made only when as
\* many Optimizer as Evaluator calls precede it, on a candidate with one
\* revision per earlier evaluation (so no candidate is evaluated twice); an
\* Optimizer call only when exactly one more Evaluator call precedes it (so
\* no two revisions without an evaluation between them).  A run that reaches
\* DONE ended with an Evaluator call; the only run whose last call is an
\* Optimizer call is the one aborted by that call's failure.
C23_StrictAlternation ==
    /\ [](\A r \in Runs :
             /\ optimizer_calls[r] <= evaluator_calls[r]
             /\ evaluator_calls[r] <= optimizer_calls[r] + 1
             /\ pc[r] = "DONE" => evaluator_calls[r] = optimizer_calls[r] + 1
             /\ (pc[r] = "FAILED" /\ evaluator_calls[r] = optimizer_calls[r]) =>
                    \/ evaluator_calls[r] = 0
                    \/ OptimizerFailed(r))
    /\ [][\A r \in Runs :
             /\ evaluator_calls'[r] # evaluator_calls[r] =>
                    /\ evaluator_calls'[r] = evaluator_calls[r] + 1
                    /\ optimizer_calls'[r] = optimizer_calls[r]
                    /\ optimizer_calls[r] = evaluator_calls[r]
                    /\ Len(state[r].process_configuration.revisions) =
                           evaluator_calls[r]
             /\ optimizer_calls'[r] # optimizer_calls[r] =>
                    /\ optimizer_calls'[r] = optimizer_calls[r] + 1
                    /\ evaluator_calls'[r] = evaluator_calls[r]
                    /\ evaluator_calls[r] = optimizer_calls[r] + 1]_vars

C23_Witness ==
    /\ pc[1] = "DONE"
    /\ evaluator_calls[1] = 3
    /\ optimizer_calls[1] = 2
    /\ Len(state[1].process_configuration.revisions) = 2
    /\ state[1].max_iterations = 3

\* C24: whenever the Optimizer is invoked, the verdict it is prompted with is
\* state.evaluation, which is the Evaluator's latest response and was
\* produced for the current candidate (the candidate with k revisions is
\* judged by response k + 1); the prompt carries that verdict's score, both
\* assessments and the recommendations together with the current candidate,
\* and the revision that comes back was written from exactly those.
LatestResponse(r) == responses[r][Len(responses[r])]

C24_FullLatestVerdict ==
    /\ [](\A r \in Runs :
             pc[r] = "OPTIMIZING" =>
                 /\ state[r].evaluation = LatestResponse(r)
                 /\ Len(responses[r]) =
                        Len(state[r].process_configuration.revisions) + 1
                 /\ LET prompt == optimizer_prompt(state[r])
                        v == LatestResponse(r)
                    IN /\ prompt.configuration = state[r].process_configuration
                       /\ prompt.performance_score = v.performance_score
                       /\ prompt.water_quality_assessment =
                              v.water_quality_assessment
                       /\ prompt.efficiency_assessment = v.efficiency_assessment
                       /\ prompt.improvement_recommendations =
                              v.improvement_recommendations)
    /\ [][\A r \in Runs :
             (optimizer_calls'[r] # optimizer_calls[r] /\ pc'[r] = "EVALUATING") =>
                 LET revs == state'[r].process_configuration.revisions
                     v == LatestResponse(r)
                 IN /\ Len(revs) = Len(state[r].process_configuration.revisions) + 1
                    /\ revs[Len(revs)] = <<v.performance_score,
                                           v.water_quality_assessment,
                                           v.efficiency_assessment,
                                           v.improvement_recommendations>>]_vars

C24_Witness ==
    /\ pc[1] = "OPTIMIZING"
    /\ optimizer_calls[1] = 1
    /\ Len(responses[1]) = 2
    /\ state[1].evaluation = responses[1][2]
    /\ responses[1][1].performance_score # responses[1][2].performance_score
    /\ optimizer_prompt(state[1]).performance_score =
           responses[1][2].performance_score

\* C25: a run cancelled between steps makes no Evaluator or Optimizer call
\* afterwards and applies no result afterwards: the cancellation itself
\* changes nothing of the state, and from then on the run's state, calls,
\* responses and decisions stay exactly as they were when it was cancelled.
C25_CancelStopsTheRun ==
    [][\A r \in Runs :
          /\ (pc'[r] = "CANCELLED" /\ pc[r] # "CANCELLED") =>
                 /\ pc[r] \in {"EVALUATING", "DECIDING", "OPTIMIZING"}
                 /\ state'[r] = state[r]
                 /\ evaluator_calls'[r] = evaluator_calls[r]
                 /\ optimizer_calls'[r] = optimizer_calls[r]
          /\ pc[r] = "CANCELLED" =>
                 /\ pc'[r] = "CANCELLED"
                 /\ state'[r] = state[r]
                 /\ evaluator_calls'[r] = evaluator_calls[r]
                 /\ optimizer_calls'[r] = optimizer_calls[r]
                 /\ responses'[r] = responses[r]
                 /\ decisions'[r] = decisions[r]
                 /\ error'[r] = error[r]]_vars

C25_Witness ==
    /\ pc[1] = "CANCELLED"
    /\ evaluator_calls[1] = 1
    /\ optimizer_calls[1] = 0
    /\ state[1].evaluation = responses[1][1]
    /\ decisions[1] = <<"Continue">>
    /\ pc[2] = "DONE"
    /\ optimizer_calls[2] = 2

\* C26: two interleaved runs, each with its own OptimizationState, never
\* affect one another: every entry of a run's history was built from that
\* run's own candidate and its own Evaluator's verdict, no entry of one
\* history appears in the other, and a run that reaches DONE holds exactly
\* the state it reaches when run alone on its inputs and responses.
RunAlone(input, resps) ==
    LET k == Len(resps) - 1
    IN [process_configuration |-> Revised(input[1], resps, k),
        iteration_count |-> k,
        max_iterations |-> input[2],
        evaluation |-> resps[k + 1],
        optimization_history |->
            [i \in 1..k |-> [iteration |-> i,
                             configuration |-> Revised(input[1], resps, i),
                             evaluation |-> resps[i]]]]

C26_RunsAreIsolated ==
    /\ \A r \in Runs :
           \A i \in 1..Len(state[r].optimization_history) :
               LET e == state[r].optimization_history[i]
               IN /\ e.configuration.base = args[r][1].base
                  /\ e.evaluation = responses[r][i]
    /\ \A i \in 1..Len(state[1].optimization_history) :
           \A j \in 1..Len(state[2].optimization_history) :
               state[1].optimization_history[i] #
                   state[2].optimization_history[j]
    /\ \A r \in Runs :
           pc[r] = "DONE" => state[r] = RunAlone(args[r], responses[r])

C26_Witness ==
    /\ pc[1] = "DONE"
    /\ pc[2] = "DONE"
    /\ args[1][1].base = args[2][1].base
    /\ Len(state[1].optimization_history) = 2
    /\ Len(state[2].optimization_history) = 1
    /\ state[2].max_iterations = 3

\* ======================================================================
\* The customer-service routing workflow
\* (src/docs/water_industry/customer-service-md.md)
\* ======================================================================
\* The categories and priority levels the classifier is prompted with.
Categories == {"billing", "service_disruption", "water_quality",
               "conservation", "new_service", "general"}

Priorities == {"low", "medium", "high", "emergency"}

\* Customer inquiries the workflow is run on.
Inquiries == {"my bill doubled", "no water since noon", "water tastes odd"}

\* def route_inquiry(self, state): return f"handle_{state['category']}"
route_inquiry(s) == "handle_" \o s.category

\* The path map given to add_conditional_edges("classify_inquiry", ...).
conditional_edges ==
    [key \in Categories |->
        CASE key = "billing" -> "handle_billing"
          [] key = "service_disruption" -> "handle_service_disruption"
          [] key = "water_quality" -> "handle_water_quality"
          [] key = "conservation" -> "handle_conservation"
          [] key = "new_service" -> "handle_new_service"
          [] key = "general" -> "handle_general"]

\* The workflow is invoked on an inquiry.
ReceiveInquiry(inquiry) ==
    /\ cs.pc = "START"
    /\ cs' = [cs EXCEPT !.pc = "classify_inquiry", !.inquiry = inquiry]
    /\ UNCHANGED <<loop_vars, wq, monitor_vars, agent>>

\* classify_inquiry: the router's structured answer is stored.
classify_inquiry(category, priority) ==
    /\ cs.pc = "classify_inquiry"
    /\ cs' = [cs EXCEPT !.pc = "route_inquiry",
                        !.category = category,
                        !.priority = priority]
    /\ UNCHANGED <<loop_vars, wq, monitor_vars, agent>>

\* The conditional edge after classify_inquiry: the value route_inquiry
\* returns is looked up in the path map; a value that is no key of the map
\* raises KeyError and no handler is entered.
Route ==
    /\ cs.pc = "route_inquiry"
    /\ LET r == route_inquiry(cs)
       IN cs' = [cs EXCEPT !.route = r,
                           !.pc = IF r \in DOMAIN conditional_edges
                                  THEN conditional_edges[r]
                                  ELSE "KeyError"]
    /\ UNCHANGED <<loop_vars, wq, monitor_vars, agent>>

RoutingNext ==
    \/ \E inquiry \in Inquiries : ReceiveInquiry(inquiry)
    \/ \E c \in Categories, p \in Priorities : classify_inquiry(c, p)
    \/ Route

RoutingSpec == Init /\ [][RoutingNext]_vars

\* C27: for each of the six categories the value route_inquiry returns is a
\* key of the conditional-edge map, so once the edge is taken the inquiry is
\* at the handler handle_<category> and at no other.
C27_RoutedToOwnHandler ==
    cs.route # "" =>
        /\ cs.route \in DOMAIN conditional_edges
        /\ cs.pc = "handle_" \o cs.category

\* ======================================================================
\* The water-quality analysis workflow
\* (src/docs/water_industry/1-water-quality-md.md)
\* ======================================================================
\* if topics_covered >= 3 and len(analysis_text) > 200
TopicsRequired == 3

QualityMinLength == 200

\* An analysis text is the set of terms it contains, spelled as the LLM wrote
\* them, and its length in characters.
AnalysisTerms == {"pH", "turbidity", "Turbidity", "dissolved solids",
                  "contaminant", "chlorine"}

AnalysisLengths == {QualityMinLength - 1, QualityMinLength, QualityMinLength + 1}

Analyses == [words : SUBSET AnalysisTerms, length : AnalysisLengths]

\* str.lower() on a term, and on a text (its length is kept)
lower_term(w) ==
    CASE w = "pH" -> "ph"
      [] w = "Turbidity" -> "turbidity"
      [] OTHER -> w

lower(text) == [words |-> {lower_term(w) : w \in text.words},
                length |-> text.length]

\* required_topics = ["pH", "turbidity", "dissolved solids", "contaminant"]
required_topics == <<"pH", "turbidity", "dissolved solids", "contaminant">>

\* def check_analysis_quality(self, state): the topics are looked up, as
\* written, in the lower-cased analysis
check_analysis_quality(s) ==
    LET analysis_text == lower(s.initial_analysis)
        topics_covered ==
            Cardinality({i \in DOMAIN required_topics :
                            required_topics[i] \in analysis_text.words})
    IN IF topics_covered >= TopicsRequired
          /\ analysis_text.length > QualityMinLength
       THEN "Pass"
       ELSE "Fail"

\* analyze_parameters: the LLM's initial assessment is stored
analyze_parameters(text) ==
    /\ wq.pc = "START"
    /\ wq' = [wq EXCEPT !.pc = "check_analysis_quality",
                        !.initial_analysis = text]
    /\ UNCHANGED <<loop_vars, cs, monitor_vars, agent>>

\* The quality gate between stages 1 and 2: the workflow proceeds to the
\* treatment recommendations on "Pass" and stops early otherwise.
QualityGate ==
    /\ wq.pc = "check_analysis_quality"
    /\ LET result == check_analysis_quality(wq)
       IN wq' = [wq EXCEPT !.gate = result,
                           !.pc = IF result = "Pass"
                                  THEN "recommend_treatment"
                                  ELSE "END"]
    /\ UNCHANGED <<loop_vars, cs, monitor_vars, agent>>

recommend_treatment ==
    /\ wq.pc = "recommend_treatment"
    /\ wq' = [wq EXCEPT !.pc = "evaluate_compliance",
                        !.treatment_recommendations = "recommendations"]
    /\ UNCHANGED <<loop_vars, cs, monitor_vars, agent>>

evaluate_compliance ==
    /\ wq.pc = "evaluate_compliance"
    /\ wq' = [wq EXCEPT !.pc = "generate_report",
                        !.compliance_evaluation = "compliance"]
    /\ UNCHANGED <<loop_vars, cs, monitor_vars, agent>>

generate_report ==
    /\ wq.pc = "generate_report"
    /\ wq' = [wq EXCEPT !.pc = "END", !.final_report = "report"]
    /\ UNCHANGED <<loop_vars, cs, monitor_vars, agent>>

QualityNext ==
    \/ \E text \in Analyses : analyze_parameters(text)
    \/ QualityGate
    \/ recommend_treatment
    \/ evaluate_compliance
    \/ generate_report

QualitySpec == Init /\ [][QualityNext]_vars

\* The number of required topics an analysis mentions, in whatever case.
TopicsMentioned(text) ==
    Cardinality({i \in DOMAIN required_topics :
                    \E w \in text.words :
                        lower_term(w) = lower_term(required_topics[i])})

\* C28: the quality gate answers "Pass" exactly when at least 3 of the 4
\* required topics are mentioned in the initial analysis and the analysis is
\* longer than 200 characters, "Fail" otherwise; treatment recommendations
\* exist only after a "Pass".
C28_QualityGate ==
    /\ wq.gate # "" =>
           /\ wq.gate \in {"Pass", "Fail"}
           /\ wq.gate = "Pass" <=>
                  /\ TopicsMentioned(wq.initial_analysis) >= TopicsRequired
                  /\ wq.initial_analysis.length > QualityMinLength
    /\ wq.treatment_recommendations # "" => wq.gate = "Pass"

\* ======================================================================
\* The water-quality monitoring agent's stored readings
\* (src/docs/water_industry/water-quality-agent-md.md)
\* ======================================================================
\* if len(self.historical_readings) > 100
HistoryLimit == 100

\* Number of timestamped readings followed.
MaxArrivals == 103

\* What get_current_readings may return to its t-th timestamped call: a
\* dict of readings with a timestamp, a dict without one, or no dict at all
\* (an error string).
Observations(t) ==
    {[type |-> "dict", keys |-> {"timestamp", "pH", "turbidity"}, timestamp |-> t],
     [type |-> "dict", keys |-> {"pH", "turbidity"}, timestamp |-> 0],
     [type |-> "str", keys |-> {}, timestamp |-> 0]}

\* isinstance(observation, dict) and "timestamp" in observation
IsTimestampedDict(obs) == obs.type = "dict" /\ "timestamp" \in obs.keys

\* The special case evicting the newest reading instead of the oldest.
tool_executor_evict_newest(obs) ==
    /\ Len(arrivals) < MaxArrivals
    /\ observation' = obs
    /\ IF IsTimestampedDict(obs)
       THEN /\ LET appended == Append(historical_readings, obs)
               IN historical_readings' =
                      IF Len(appended) > HistoryLimit
                      THEN SubSeq(appended, 1, Len(appended) - 1)
                      ELSE appended
            /\ arrivals' = Append(arrivals, obs)
       ELSE UNCHANGED <<historical_readings, arrivals>>
    /\ UNCHANGED <<loop_vars, cs, wq, agent>>

\* tool_executor, special case for get_current_readings: the observation is
\* appended when it is a dict with a timestamp, and the oldest reading is
\* popped when the list has grown past the limit.
tool_executor(obs) ==
    /\ Len(arrivals) < MaxArrivals
    /\ observation' = obs
    /\ IF IsTimestampedDict(obs)
       THEN /\ LET appended == Append(historical_readings, obs)
               IN historical_readings' =
                      IF Len(appended) > HistoryLimit
                      THEN Tail(appended)
                      ELSE appended
            /\ arrivals' = Append(arrivals, obs)
       ELSE UNCHANGED <<historical_readings, arrivals>>
    /\ UNCHANGED <<loop_vars, cs, wq, agent>>

ReadingsNext ==
    \E obs \in Observations(Len(arrivals) + 1) : tool_executor(obs)

ReadingsSpec == Init /\ [][ReadingsNext]_vars

\* The last n elements of a sequence.
LastN(s, n) == SubSeq(s, Len(s) - n + 1, Len(s))

\* C29: after any sequence of get_current_readings calls historical_readings
\* holds at most 100 readings, namely the most recent timestamped readings in
\* arrival order (the oldest evicted first); a call whose observation is not
\* a dict with a timestamp leaves the list as it was.
C29_BoundedHistory ==
    /\ [](/\ Len(historical_readings) <= HistoryLimit
          /\ historical_readings =
                 LastN(arrivals, Min(HistoryLimit, Len(arrivals)))
          /\ \A i \in 1..Len(historical_readings) :
                 IsTimestampedDict(historical_readings[i]))
    /\ [][~IsTimestampedDict(observation') =>
              historical_readings' = historical_readings]_vars

C29_Witness ==
    /\ Len(arrivals) = HistoryLimit + 2
    /\ Len(historical_readings) = HistoryLimit
    /\ historical_readings[1].timestamp = 3
    /\ historical_readings[HistoryLimit].timestamp = HistoryLimit + 2
    /\ observation.type = "str"

\* ======================================================================
\* The arithmetic agent loop
\* (src/notebooks/agent-dev/workflow-agents-04.ipynb)
\* ======================================================================
\* Number of LLM turns followed, and of tool calls in one AI message.
MaxLlmCalls == 2

MaxToolCalls == 2

\* The tool calls the LLM may ask for: tools = [add, multiply, divide], with
\* arguments of its choosing (the quotients chosen are whole numbers).
ToolCallChoices ==
    {[name |-> "add", args |-> <<1, 2>>],
     [name |-> "multiply", args |-> <<2, 3>>],
     [name |-> "divide", args |-> <<6, 3>>],
     [name |-> "divide", args |-> <<1, 0>>]}

\* The tool_calls lists of the AI message of a turn: up to MaxToolCalls
\* calls, the i-th with the id <<turn, i>>.
ToolCallLists(turn) ==
    UNION { { [i \in 1..n |-> [name |-> f[i].name, args |-> f[i].args,
                               id |-> <<turn, i>>]]
              : f \in [1..n -> ToolCallChoices] }
            : n \in 0..MaxToolCalls }

HumanMessage(content) ==
    [type |-> "human", content |-> content, tool_calls |-> <<>>,
     tool_call_id |-> <<>>]

AIMessage(tool_calls) ==
    [type |-> "ai", content |-> 0, tool_calls |-> tool_calls,
     tool_call_id |-> <<>>]

ToolMessage(content, tool_call_id) ==
    [type |-> "tool", content |-> content, tool_calls |-> <<>>,
     tool_call_id |-> tool_call_id]

\* tool.invoke(tool_call["args"]): add, multiply and divide; a / b raises
\* ZeroDivisionError when b = 0.
invoke(tool_call) ==
    LET a == tool_call.args[1]
        b == tool_call.args[2]
    IN CASE tool_call.name = "add" -> [raised |-> FALSE, value |-> a + b]
         [] tool_call.name = "multiply" -> [raised |-> FALSE, value |-> a * b]
         [] tool_call.name = "divide" ->
                IF b = 0
                THEN [raised |-> TRUE, value |-> 0]
                ELSE [raised |-> FALSE, value |-> a \div b]

\* agent.invoke({"messages": [HumanMessage(...)]}) and the edge from START
InvokeAgent ==
    /\ agent.pc = "START"
    /\ agent' = [agent EXCEPT !.pc = "llm_call",
                              !.messages = <<HumanMessage(1)>>]
    /\ UNCHANGED <<loop_vars, cs, wq, monitor_vars>>

\* llm_call: the LLM's answer, with the tool calls it asks for, is added to
\* the messages
llm_call(tool_calls) ==
    /\ agent.pc = "llm_call"
    /\ agent.llm_calls < MaxLlmCalls
    /\ agent' = [agent EXCEPT !.pc = "should_continue",
                              !.llm_calls = @ + 1,
                              !.messages = Append(@, AIMessage(tool_calls))]
    /\ UNCHANGED <<loop_vars, cs, wq, monitor_vars>>

\* def should_continue(state)
should_continue(s) ==
    LET last_message == s.messages[Len(s.messages)]
    IN IF last_message.tool_calls # <<>>
       THEN "Action"
       ELSE "END"

\* The conditional edge after llm_call: {"Action": "environment", END: END}
ShouldContinue ==
    /\ agent.pc = "should_continue"
    /\ agent' = [agent EXCEPT !.pc = IF should_continue(agent) = "Action"
                                     THEN "environment"
                                     ELSE "END"]
    /\ UNCHANGED <<loop_vars, cs, wq, monitor_vars>>

\* tool_node: each tool call of the last message is invoked in order and
\* answered by a ToolMessage with its id; the edge then leads back to
\* llm_call.  An invocation that raises leaves the node by the exception:
\* the result list is lost and the run ends with the error.
tool_node ==
    /\ agent.pc = "environment"
    /\ LET tool_calls == agent.messages[Len(agent.messages)].tool_calls
           result == [i \in 1..Len(tool_calls) |->
                         ToolMessage(invoke(tool_calls[i]).value,
                                     tool_calls[i].id)]
       IN IF \E i \in 1..Len(tool_calls) : invoke(tool_calls[i]).raised
          THEN agent' = [agent EXCEPT !.pc = "ERROR"]
          ELSE agent' = [agent EXCEPT !.pc = "llm_call",
                                      !.messages = @ \o result]
    /\ UNCHANGED <<loop_vars, cs, wq, monitor_vars>>

AgentNext ==
    \/ InvokeAgent
    \/ \E tool_calls \in ToolCallLists(agent.llm_calls + 1) : llm_call(tool_calls)
    \/ ShouldContinue
    \/ tool_node

AgentSpec == Init /\ [][AgentNext]_vars

\* C30: after each llm_call the graph goes to the tool node exactly when the
\* last message contains tool calls and ends otherwise; the tool node appends
\* one tool message per tool call of that message, in order and with the same
\* tool_call_id, and control then returns to llm_call.
C30_AgentLoop ==
    [][LET last_calls == agent.messages[Len(agent.messages)].tool_calls
       IN /\ agent.pc = "should_continue" =>
                 /\ agent'.messages = agent.messages
                 /\ agent'.pc = (IF last_calls # <<>> THEN "environment"
                                                      ELSE "END")
          /\ agent.pc = "environment" =>
                 /\ agent'.pc = "llm_call"
                 /\ Len(agent'.messages) =
                        Len(agent.messages) + Len(last_calls)
                 /\ SubSeq(agent'.messages, 1, Len(agent.messages)) =
                        agent.messages
                 /\ \A i \in 1..Len(last_calls) :
                        LET m == agent'.messages[Len(agent.messages) + i]
                        IN /\ m.type = "tool"
                           /\ m.tool_call_id = last_calls[i].id]_agent

====
